---- MODULE Spec2Model ----
(***************************************************************************)
(* Model of diameter_server.py: a listener thread that accepts stream      *)
(* connections and starts one handle_request thread per connection; each   *)
(* thread reads a block of bytes, hands it to send_response, which decodes *)
(* it (libDiameter stripHdr / splitMsgAVPs / decodeAVP), picks a response  *)
(* builder by command code, and writes the answer back.                    *)
(*                                                                         *)
(* Bytes are kept as sequences of pieces  [m, lo, hi] : the bytes lo..hi-1 *)
(* of the wire image of message m.  This keeps every byte count exact      *)
(* (recv sizes, BUFFER_SIZE, header size) without enumerating 4096 cells.  *)
(***************************************************************************)
EXTENDS Integers, Sequences, FiniteSets, TLC

\* ------------------------------------------------------------------ bounds
MaxConns == 2      \* connections (and so worker threads) in a run
MaxMsgs  == 2      \* request messages the peers send in a run

\* ------------------------------------------------------- program constants
BUFFER_SIZE == 4096
DIAMETER_SUCCESS == 2001
DIAMETER_UNABLE_TO_COMPLY == 5012
CER_CODE == 257

\* wire format: version(1) length(3) flags(1) command(3) application(4)
\* hop-by-hop(4) end-to-end(4); an AVP is code(4) flags(1) length(3) data,
\* padded to a multiple of four bytes.
HeaderSize == 20
AVPHeaderSize == 8

\* dictionary: AVP name <-> AVP code
AVPNames == {"Origin-Host", "Origin-Realm", "Result-Code", "Vendor-Id",
             "Origin-State-Id", "Supported-Vendor-Id", "Acct-Application-Id",
             "Proxy-State"}

dictAVPname2code(name) ==
    CASE name = "Origin-Host"         -> 264
      [] name = "Origin-Realm"        -> 296
      [] name = "Result-Code"         -> 268
      [] name = "Vendor-Id"           -> 266
      [] name = "Origin-State-Id"     -> 278
      [] name = "Supported-Vendor-Id" -> 265
      [] name = "Acct-Application-Id" -> 259
      [] name = "Proxy-State"         -> 33
      [] OTHER                        -> 0

dictAVPcode2name(code) ==
    IF \E n \in AVPNames : dictAVPname2code(n) = code
    THEN CHOOSE n \in AVPNames : dictAVPname2code(n) = code
    ELSE "Unknown"

\* data length in bytes of an encoded value: Unsigned32 values take four
\* bytes, identities are strings (we use five-character host/realm names),
\* Proxy-State is an octet string whose value we identify with its length.
DataLen(name, value) ==
    CASE name \in {"Origin-Host", "Origin-Realm"} -> 5
      [] name = "Proxy-State"                     -> value
      [] OTHER                                    -> 4

Pad4(n) == ((n + 3) \div 4) * 4

\* encodeAVP(name, value): the wire AVP
encodeAVP(name, value) ==
    [code |-> dictAVPname2code(name), data |-> value,
     dlen |-> DataLen(name, value)]

\* decodeAVP(hex_avp): (field, value)
decodeAVP(avp) == <<dictAVPcode2name(avp.code), avp.data>>

AVPLen(avp) == Pad4(AVPHeaderSize + avp.dlen)

RECURSIVE AVPsLen(_)
AVPsLen(avps) ==
    IF avps = <<>> THEN 0 ELSE AVPLen(Head(avps)) + AVPsLen(Tail(avps))

\* bytes a message occupies on the wire
WireLen(m) == HeaderSize + AVPsLen(m.avps)

\* ------------------------------------------------------------ byte blocks
RECURSIVE Size(_)
Size(b) == IF b = <<>> THEN 0 ELSE (Head(b).hi - Head(b).lo) + Size(Tail(b))

\* a + b on byte strings: adjacent ranges of one message merge
Cat(a, b) ==
    IF a = <<>> THEN b
    ELSE IF b = <<>> THEN a
    ELSE LET x == a[Len(a)]
             y == b[1]
         IN IF x.m = y.m /\ x.hi = y.lo
            THEN SubSeq(a, 1, Len(a) - 1)
                 \o <<[m |-> x.m, lo |-> x.lo, hi |-> y.hi]>>
                 \o Tail(b)
            ELSE a \o b

RECURSIVE Take(_, _)
Take(b, n) ==
    IF n <= 0 \/ b = <<>> THEN <<>>
    ELSE LET p == Head(b)
             k == p.hi - p.lo
         IN IF k <= n THEN <<p>> \o Take(Tail(b), n - k)
            ELSE <<[m |-> p.m, lo |-> p.lo, hi |-> p.lo + n]>>

RECURSIVE Drop(_, _)
Drop(b, n) ==
    IF n <= 0 \/ b = <<>> THEN b
    ELSE LET p == Head(b)
             k == p.hi - p.lo
         IN IF k <= n THEN Drop(Tail(b), n - k)
            ELSE <<[m |-> p.m, lo |-> p.lo + n, hi |-> p.hi]>> \o Tail(b)

Bytes(m) == <<[m |-> m, lo |-> 0, hi |-> WireLen(m)]>>

\* ------------------------------------------------- messages on the wire
\* a Diameter message as its peer wrote it: the header fields and the AVPs
MkMsg(len, cmd, appId, hbh, ete, avps) ==
    [len |-> len, cmd |-> cmd, appId |-> appId, hbh |-> hbh, ete |-> ete,
     avps |-> avps]

\* a well-formed request: the length field is the size of the wire image
MkReq(cmd, id, avps) ==
    MkMsg(HeaderSize + AVPsLen(avps), cmd, 0, id, id + 10, avps)

SixAVPs ==
    << encodeAVP("Origin-Host", 1), encodeAVP("Origin-Realm", 2),
       encodeAVP("Vendor-Id", 0), encodeAVP("Origin-State-Id", 1),
       encodeAVP("Supported-Vendor-Id", 0),
       encodeAVP("Acct-Application-Id", 0) >>

\* the same with Supported-Vendor-Id given twice
DupAVPs == SixAVPs \o << encodeAVP("Supported-Vendor-Id", 7) >>

\* Acct-Application-Id left out
FiveAVPs == SubSeq(SixAVPs, 1, 5)

\* one octet-string AVP that makes the message exactly BUFFER_SIZE bytes
BulkAVPs ==
    << encodeAVP("Proxy-State", BUFFER_SIZE - HeaderSize - AVPHeaderSize) >>

CmdCodes == {CER_CODE, 9999}

\* the identifiers a peer puts in a request of a given command
ReqId(cmd) == IF cmd = CER_CODE THEN 1 ELSE 2

\* a bare header whose length field declares fewer bytes than a header has
BadLenRequest == MkMsg(8, 9999, 0, ReqId(9999), ReqId(9999) + 10, <<>>)

\* what a peer may send in the single-connection specification
AllRequests ==
    { MkReq(cmd, ReqId(cmd), avps) :
        cmd \in CmdCodes,
        avps \in {SixAVPs, DupAVPs, FiveAVPs, <<>>, BulkAVPs} }
    \cup {BadLenRequest}

\* what a peer may send in the multi-connection specification
CoreRequests ==
    { MkReq(CER_CODE, ReqId(CER_CODE), SixAVPs),
      MkReq(9999, ReqId(9999), BulkAVPs) }

\* --------------------------------------------------- libDiameter decoding
\* the AVPs of m that lie wholly inside its first hi bytes
RECURSIVE AVPsWithin(_, _)
AVPsWithin(avps, room) ==
    IF avps = <<>> \/ AVPLen(Head(avps)) > room THEN <<>>
    ELSE <<Head(avps)>> \o AVPsWithin(Tail(avps), room - AVPLen(Head(avps)))

\* the block is the header of one message followed by whole AVPs of it
CleanBlock(data) ==
    /\ Len(data) = 1
    /\ data[1].lo = 0
    /\ data[1].hi >= HeaderSize
    /\ HeaderSize + AVPsLen(AVPsWithin(data[1].m.avps, data[1].hi - HeaderSize))
         = data[1].hi

\* the block is exactly one message, as long as its header declares
OneMessage(data) ==
    /\ Len(data) = 1
    /\ data[1].lo = 0
    /\ data[1].hi = WireLen(data[1].m)
    /\ Size(data) = data[1].m.len

\* stripHdr(H, hex): the header fields of the first 20 bytes, H.msg the rest
stripHdr(data) ==
    LET m == data[1].m
    IN [len |-> m.len, cmd |-> m.cmd, appId |-> m.appId,
        HobByHop |-> m.hbh, EndToEnd |-> m.ete,
        msg |-> AVPsWithin(m.avps, data[1].hi - HeaderSize)]

\* self.avps: a dictionary filled entry by entry, a later entry of the same
\* field replacing the earlier one
RECURSIVE AVPDict(_, _)
AVPDict(d, hex_avps) ==
    IF hex_avps = <<>> THEN d
    ELSE LET fv == decodeAVP(Head(hex_avps))
             nd == [k \in DOMAIN d \cup {fv[1]} |->
                       IF k = fv[1] THEN fv[2] ELSE d[k]]
         IN AVPDict(nd, Tail(hex_avps))

EmptyDict == [k \in {} |-> 0]

\* DiameterMessage(request_data)
DiameterMessage(H, extra) ==
    [length |-> H.len, command_code |-> H.cmd, application_Id |-> H.appId,
     HobByHop |-> H.HobByHop, EndToEnd |-> H.EndToEnd,
     avps |-> AVPDict(EmptyDict, H.msg \o extra)]

NoMessage == [length |-> 0]

\* what lines 179-181 can produce from a block: a decoded request, or an
\* exception (err).  A block that is not a header followed by whole AVPs
\* (short, starting inside a message, cut inside an AVP, or running into the
\* next message) is decoded from bytes that the model does not itemise: the
\* library either raises or yields whatever those bytes spell.
DecodeOutcomes(data) ==
    IF Size(data) < HeaderSize
      THEN { [err |-> TRUE, msg |-> NoMessage] }
    ELSE IF data[1].lo # 0
      THEN { [err |-> TRUE, msg |-> NoMessage] } \cup
           { [err |-> FALSE,
              msg |-> DiameterMessage([len |-> 0, cmd |-> c, appId |-> 0,
                                       HobByHop |-> 0, EndToEnd |-> 0,
                                       msg |-> <<>>], <<>>)] : c \in CmdCodes }
    ELSE IF CleanBlock(data)
      THEN { [err |-> FALSE, msg |-> DiameterMessage(stripHdr(data), <<>>)] }
    ELSE { [err |-> TRUE, msg |-> NoMessage],
           [err |-> FALSE,
            msg |-> DiameterMessage(stripHdr(data),
                                    << [code |-> 0, data |-> 0, dlen |-> 0] >>)] }

\* ------------------------------------------------------ response builders
\* initializeHops(H): the identifiers come from a counter kept by the
\* library for the whole process; the first call seeds it from the clock
Times == {3}

initializeHops(hops, t) ==
    IF hops.set
    THEN [set |-> TRUE, hbh |-> hops.hbh + 1, ete |-> hops.ete + 1]
    ELSE [set |-> TRUE, hbh |-> t, ete |-> (t % 32768) * 32768]

\* createRes(H, avps): header with the computed length, then the AVPs
createRes(cmd, hops, avps) ==
    MkMsg(HeaderSize + AVPsLen(avps), cmd, 0, hops.hbh, hops.ete, avps)

\* the builder with the command code of the other builder
invalid_request_fixed_cmd(diameter_request, hops) ==
    createRes(CER_CODE, hops,
              << encodeAVP("Result-Code", DIAMETER_UNABLE_TO_COMPLY) >>)

invalid_request(diameter_request, hops) ==
    createRes(diameter_request.command_code, hops,
              << encodeAVP("Result-Code", DIAMETER_UNABLE_TO_COMPLY) >>)

CEARequired ==
    {"Origin-Host", "Origin-Realm", "Vendor-Id", "Origin-State-Id",
     "Supported-Vendor-Id", "Acct-Application-Id"}

\* raises KeyError unless every looked-up attribute is in the dictionary
CEAKeyError(diameter_request) ==
    ~ (CEARequired \subseteq DOMAIN diameter_request.avps)

\* the builder with the value of one attribute taken from another's entry
generate_capability_exchange_answer_swapped(diameter_request, hops) ==
    LET a == diameter_request.avps
    IN createRes(CER_CODE, hops,
         << encodeAVP("Origin-Host", a["Origin-Host"]),
            encodeAVP("Origin-Realm", a["Origin-Realm"]),
            encodeAVP("Result-Code", DIAMETER_SUCCESS),
            encodeAVP("Vendor-Id", a["Supported-Vendor-Id"]),
            encodeAVP("Origin-State-Id", a["Origin-State-Id"]),
            encodeAVP("Supported-Vendor-Id", a["Vendor-Id"]),
            encodeAVP("Acct-Application-Id", a["Acct-Application-Id"]) >>)

generate_capability_exchange_answer(diameter_request, hops) ==
    LET a == diameter_request.avps
    IN createRes(CER_CODE, hops,
         << encodeAVP("Origin-Host", a["Origin-Host"]),
            encodeAVP("Origin-Realm", a["Origin-Realm"]),
            encodeAVP("Result-Code", DIAMETER_SUCCESS),
            encodeAVP("Vendor-Id", a["Vendor-Id"]),
            encodeAVP("Origin-State-Id", a["Origin-State-Id"]),
            encodeAVP("Supported-Vendor-Id", a["Supported-Vendor-Id"]),
            encodeAVP("Acct-Application-Id", a["Acct-Application-Id"]) >>)

\* a table that hands every code from 257 upwards to the capability-exchange
\* builder
UsesCEAByRange(command_code) == command_code >= CER_CODE

\* cmd_code_responses.get(command_code, invalid_request)
UsesCEA(command_code) == command_code = CER_CODE

\* ------------------------------------------------------------------ state
Conns   == 1 .. MaxConns       \* connections peers may open
Workers == 1 .. MaxConns       \* handle_request threads, in start order

VARIABLES
    listener,   \* "accepting" | "closed" : the accept loop / listening socket
    backlog,    \* connections completed by peers and not yet accepted
    nthreads,   \* threads started so far by thread.start_new
    cstate,     \* per connection: "free" | "pending" | "open" | "closed"
    nsent,      \* per connection: messages the peer has written
    wire,       \* per connection: bytes written by the peer, not yet arrived
    sock,       \* per connection: bytes arrived and not yet read by recv
    peerEOF,    \* per connection: the peer has shut its side down
    connection, \* per worker: the socket it was started with (0: not started)
    pc,         \* per worker: where the thread is
    data,       \* per worker: the local variable data
    request,    \* per worker: diameter_request, inside send_response
    response,   \* per worker: response, inside send_response
    nframed,    \* per worker: blocks it has passed to send_response
    sent,       \* per connection: how many responses were written to it, and
                \* the last of them
    hops        \* initializeHops' counter

vars == << listener, backlog, nthreads, cstate, nsent, wire, sock, peerEOF,
           connection, pc, data, request, response, nframed, sent, hops >>

peerVars   == << cstate, nsent, wire, sock, peerEOF >>
workerVars == << connection, pc, data, request, response, nframed >>

NoResponse == [len |-> 0]

Init ==
    /\ listener = "accepting"
    /\ backlog = <<>>
    /\ nthreads = 0
    /\ cstate = [c \in Conns |-> "free"]
    /\ nsent = [c \in Conns |-> 0]
    /\ wire = [c \in Conns |-> <<>>]
    /\ sock = [c \in Conns |-> <<>>]
    /\ peerEOF = [c \in Conns |-> FALSE]
    /\ connection = [w \in Workers |-> 0]
    /\ pc = [w \in Workers |-> "idle"]
    /\ data = [w \in Workers |-> <<>>]
    /\ request = [w \in Workers |-> NoMessage]
    /\ response = [w \in Workers |-> NoResponse]
    /\ nframed = [w \in Workers |-> 0]
    /\ sent = [c \in Conns |-> [n |-> 0, last |-> NoResponse]]
    /\ hops = [set |-> FALSE, hbh |-> 0, ete |-> 0]

\* ------------------------------------------------------------------ peers
\* peers are followed for as long as the server process runs
\* connections are numbered in the order in which peers open them
Connect(c) ==
    /\ cstate[c] = "free"
    /\ \A b \in Conns : b < c => cstate[b] # "free"
    /\ listener = "accepting"
    /\ cstate' = [cstate EXCEPT ![c] = "pending"]
    /\ backlog' = Append(backlog, c)
    /\ UNCHANGED << listener, nthreads, nsent, wire, sock, peerEOF,
                    workerVars, sent, hops >>

RECURSIVE TotalSent(_)
TotalSent(cs) ==
    IF cs = {} THEN 0
    ELSE LET c == CHOOSE x \in cs : TRUE
         IN nsent[c] + TotalSent(cs \ {c})

\* the peer writes one request message
PeerSend(c, m) ==
    /\ listener = "accepting"
    /\ cstate[c] = "open"
    /\ ~ peerEOF[c]
    /\ TotalSent(Conns) < MaxMsgs
    /\ wire[c] = <<>>
    /\ nsent' = [nsent EXCEPT ![c] = @ + 1]
    /\ wire' = [wire EXCEPT ![c] = Bytes(m)]
    /\ UNCHANGED << listener, backlog, nthreads, cstate, sock, peerEOF,
                    workerVars, sent, hops >>

\* where the transport may cut a message in flight: inside the header,
\* right after the header, or not at all
CutOffsets(m) == {8, HeaderSize, WireLen(m)}

\* the transport delivers each message in one piece
WholeOnly(m) == {WireLen(m)}

\* the numbers of bytes that may arrive next; b is what is left in flight,
\* whole says that the transport delivers messages in one piece
Cuts(b, whole) ==
    IF b = <<>> THEN {}
    ELSE LET m == b[1].m
             offs == IF whole THEN WholeOnly(m) ELSE CutOffsets(m)
         IN { off - b[1].lo : off \in { o \in offs : o > b[1].lo } }

\* n more bytes reach the server's socket
Deliver(c, n) ==
    /\ listener = "accepting"
    /\ wire[c] # <<>>
    /\ n \in 1 .. Size(wire[c])
    /\ sock' = [sock EXCEPT ![c] = Cat(@, Take(wire[c], n))]
    /\ wire' = [wire EXCEPT ![c] = Drop(@, n)]
    /\ UNCHANGED << listener, backlog, nthreads, cstate, nsent, peerEOF,
                    workerVars, sent, hops >>

\* the peer closes its side; everything it wrote has arrived
PeerClose(c) ==
    /\ listener = "accepting"
    /\ cstate[c] = "open"
    /\ ~ peerEOF[c]
    /\ wire[c] = <<>>
    /\ peerEOF' = [peerEOF EXCEPT ![c] = TRUE]
    /\ UNCHANGED << listener, backlog, nthreads, cstate, nsent, wire, sock,
                    workerVars, sent, hops >>

\* --------------------------------------------------------------- listener
Live(w) == pc[w] \in {"recv", "more", "decode", "build", "send"}

\* an accept loop that handles each connection itself and takes the next
\* one only when no connection is being handled
AcceptInline ==
    /\ listener = "accepting"
    /\ backlog # <<>>
    /\ nthreads < MaxConns
    /\ \A v \in Workers : ~ Live(v)
    /\ LET c == Head(backlog)
           w == nthreads + 1
       IN /\ backlog' = Tail(backlog)
          /\ nthreads' = w
          /\ cstate' = [cstate EXCEPT ![c] = "open"]
          /\ connection' = [connection EXCEPT ![w] = c]
          /\ pc' = [pc EXCEPT ![w] = "recv"]
    /\ UNCHANGED << listener, nsent, wire, sock, peerEOF, data, request,
                    response, nframed, sent, hops >>

\* lines 221-224: accept the next connection, start its thread
Accept ==
    /\ listener = "accepting"
    /\ backlog # <<>>
    /\ nthreads < MaxConns
    /\ LET c == Head(backlog)
           w == nthreads + 1
       IN /\ backlog' = Tail(backlog)
          /\ nthreads' = w
          /\ cstate' = [cstate EXCEPT ![c] = "open"]
          /\ connection' = [connection EXCEPT ![w] = c]
          /\ pc' = [pc EXCEPT ![w] = "recv"]
    /\ UNCHANGED << listener, nsent, wire, sock, peerEOF, data, request,
                    response, nframed, sent, hops >>

\* a shutdown that waits until every worker has ended
InterruptJoins ==
    /\ listener = "accepting"
    /\ \A v \in Workers : ~ Live(v)
    /\ listener' = "closed"
    /\ pc' = [w \in Workers |-> IF Live(w) THEN "killed" ELSE pc[w]]
    /\ data' = [w \in Workers |-> <<>>]
    /\ request' = [w \in Workers |-> NoMessage]
    /\ response' = [w \in Workers |-> NoResponse]
    /\ UNCHANGED << backlog, nthreads, peerVars, connection, nframed, sent,
                    hops >>

\* lines 225-229: KeyboardInterrupt ends the accept loop, the listening
\* socket is closed and the main thread returns.  No thread is joined or
\* told to stop, and no connection is closed by the program: threads of the
\* thread module end with the process, wherever they are, and their local
\* variables with them.
Interrupt ==
    /\ listener = "accepting"
    /\ listener' = "closed"
    /\ pc' = [w \in Workers |-> IF Live(w) THEN "killed" ELSE pc[w]]
    /\ data' = [w \in Workers |-> <<>>]
    /\ request' = [w \in Workers |-> NoMessage]
    /\ response' = [w \in Workers |-> NoResponse]
    /\ UNCHANGED << backlog, nthreads, peerVars, connection, nframed, sent,
                    hops >>

\* ------------------------------------------------- handle_request thread
\* line 161, reached by a break out of the loop
CloseAndExit(w) ==
    /\ pc' = [pc EXCEPT ![w] = "closed"]
    /\ cstate' = [cstate EXCEPT ![connection[w]] = "closed"]

\* a worker that reads the next block while a response is still to be sent
RecvPipelined(w) ==
    /\ pc[w] \in {"recv", "send"}
    /\ sock[connection[w]] # <<>>
    /\ LET got == Take(sock[connection[w]], BUFFER_SIZE)
       IN /\ data' = [data EXCEPT ![w] = got]
          /\ sock' = [sock EXCEPT ![connection[w]] = Drop(@, BUFFER_SIZE)]
          /\ pc' = [pc EXCEPT ![w] = "decode"]
          /\ nframed' = [nframed EXCEPT ![w] = @ + 1]
    /\ UNCHANGED << listener, backlog, nthreads, cstate, nsent, wire, peerEOF,
                    connection, request, response, sent, hops >>

\* line 140 returns data; line 144 sends a full buffer to the inner loop,
\* line 152 lets anything else through to send_response
Recv(w) ==
    /\ pc[w] = "recv"
    /\ sock[connection[w]] # <<>>
    /\ LET got == Take(sock[connection[w]], BUFFER_SIZE)
       IN /\ data' = [data EXCEPT ![w] = got]
          /\ sock' = [sock EXCEPT ![connection[w]] = Drop(@, BUFFER_SIZE)]
          /\ IF Size(got) = BUFFER_SIZE
             THEN /\ pc' = [pc EXCEPT ![w] = "more"]
                  /\ UNCHANGED nframed
             ELSE /\ pc' = [pc EXCEPT ![w] = "decode"]
                  /\ nframed' = [nframed EXCEPT ![w] = @ + 1]
    /\ UNCHANGED << listener, backlog, nthreads, cstate, nsent, wire, peerEOF,
                    connection, request, response, sent, hops >>

\* a worker that leaves the loop on end of stream without closing
RecvEOFLeavesOpen(w) ==
    /\ pc[w] = "recv"
    /\ sock[connection[w]] = <<>>
    /\ peerEOF[connection[w]]
    /\ data' = [data EXCEPT ![w] = <<>>]
    /\ pc' = [pc EXCEPT ![w] = "closed"]
    /\ UNCHANGED << listener, backlog, nthreads, peerVars, connection,
                    request, response, nframed, sent, hops >>

\* line 140 returns no data: lines 152-153 break, line 161 closes
RecvEOF(w) ==
    /\ pc[w] = "recv"
    /\ sock[connection[w]] = <<>>
    /\ peerEOF[connection[w]]
    /\ data' = [data EXCEPT ![w] = <<>>]
    /\ CloseAndExit(w)
    /\ UNCHANGED << listener, backlog, nthreads, nsent, wire, sock, peerEOF,
                    connection, request, response, nframed, sent, hops >>

\* line 140 raises socket.error: lines 141-142 break, line 161 closes
RecvError(w) ==
    /\ pc[w] = "recv"
    /\ CloseAndExit(w)
    /\ UNCHANGED << listener, backlog, nthreads, nsent, wire, sock, peerEOF,
                    connection, data, request, response, nframed, sent, hops >>

\* line 147 returns data: it is appended and the inner loop goes round
More(w) ==
    /\ pc[w] = "more"
    /\ sock[connection[w]] # <<>>
    /\ data' = [data EXCEPT ![w] =
                   Cat(@, Take(sock[connection[w]], BUFFER_SIZE))]
    /\ sock' = [sock EXCEPT ![connection[w]] = Drop(@, BUFFER_SIZE)]
    /\ UNCHANGED << listener, backlog, nthreads, cstate, nsent, wire, peerEOF,
                    connection, pc, request, response, nframed, sent, hops >>

\* line 147 returns no data: '' is appended and the inner loop goes round
MoreEOF(w) ==
    /\ pc[w] = "more"
    /\ sock[connection[w]] = <<>>
    /\ peerEOF[connection[w]]
    /\ data' = [data EXCEPT ![w] = Cat(@, <<>>)]
    /\ UNCHANGED << listener, backlog, nthreads, peerVars, connection, pc,
                    request, response, nframed, sent, hops >>

\* line 147 raises socket.error: lines 148-150 leave the inner loop, and
\* line 152 lets the accumulated data through to send_response
MoreError(w) ==
    /\ pc[w] = "more"
    /\ pc' = [pc EXCEPT ![w] = "decode"]
    /\ nframed' = [nframed EXCEPT ![w] = @ + 1]
    /\ UNCHANGED << listener, backlog, nthreads, peerVars, connection, data,
                    request, response, sent, hops >>

\* ---------------------------------------------------------- send_response
\* a worker that closes its connection when decoding fails
DecodeClosesOnError(w) ==
    /\ pc[w] = "decode"
    /\ \E out \in DecodeOutcomes(data[w]) :
         IF out.err
         THEN /\ CloseAndExit(w)
              /\ UNCHANGED request
         ELSE /\ pc' = [pc EXCEPT ![w] = "build"]
              /\ request' = [request EXCEPT ![w] = out.msg]
              /\ UNCHANGED cstate
    /\ UNCHANGED << listener, backlog, nthreads, nsent, wire, sock, peerEOF,
                    connection, data, response, nframed, sent, hops >>

\* lines 179-181: header and AVPs decoded, or an exception ends the thread
Decode(w) ==
    /\ pc[w] = "decode"
    /\ \E out \in DecodeOutcomes(data[w]) :
         IF out.err
         THEN /\ pc' = [pc EXCEPT ![w] = "raised_decode"]
              /\ UNCHANGED request
         ELSE /\ pc' = [pc EXCEPT ![w] = "build"]
              /\ request' = [request EXCEPT ![w] = out.msg]
    /\ UNCHANGED << listener, backlog, nthreads, peerVars, connection, data,
                    response, nframed, sent, hops >>

\* a send_response that answers with the default response when the
\* capability-exchange builder misses an attribute
BuildFallsBack(w) ==
    /\ pc[w] = "build"
    /\ \E t \in Times :
         LET h == initializeHops(hops, t)
             r == request[w]
         IN /\ hops' = h
            /\ pc' = [pc EXCEPT ![w] = "send"]
            /\ response' = [response EXCEPT ![w] =
                  IF UsesCEA(r.command_code) /\ ~ CEAKeyError(r)
                  THEN generate_capability_exchange_answer(r, h)
                  ELSE invalid_request(r, h)]
    /\ UNCHANGED << listener, backlog, nthreads, peerVars, connection, data,
                    request, nframed, sent >>

\* lines 183-190: the builder for the command code runs; it calls
\* initializeHops before it looks any attribute up
Build(w) ==
    /\ pc[w] = "build"
    /\ \E t \in Times :
         LET h == initializeHops(hops, t)
             r == request[w]
         IN /\ hops' = h
            /\ IF UsesCEA(r.command_code)
               THEN IF CEAKeyError(r)
                    THEN /\ pc' = [pc EXCEPT ![w] = "raised_key"]
                         /\ UNCHANGED response
                    ELSE /\ pc' = [pc EXCEPT ![w] = "send"]
                         /\ response' = [response EXCEPT ![w] =
                               generate_capability_exchange_answer(r, h)]
               ELSE /\ pc' = [pc EXCEPT ![w] = "send"]
                    /\ response' = [response EXCEPT ![w] =
                          invalid_request(r, h)]
    /\ UNCHANGED << listener, backlog, nthreads, peerVars, connection, data,
                    request, nframed, sent >>

\* a write that goes to the next connection instead
SendTargetOther(w) == (connection[w] % MaxConns) + 1

\* the socket send_response writes to: the one handle_request passed in
SendTarget(w) == connection[w]

\* a worker that serves one request per connection: it closes the
\* connection once the response is out
SendOneShot(w) ==
    /\ pc[w] = "send"
    /\ sent' = [sent EXCEPT ![SendTarget(w)] =
                   [n |-> @.n + 1, last |-> response[w]]]
    /\ CloseAndExit(w)
    /\ request' = [request EXCEPT ![w] = NoMessage]
    /\ response' = [response EXCEPT ![w] = NoResponse]
    /\ UNCHANGED << listener, backlog, nthreads, nsent, wire, sock, peerEOF,
                    connection, data, nframed, hops >>

\* lines 193-197 and 158-160: the response goes out on the socket, is
\* decoded again for the log, send_response returns and the outer loop
\* goes round
Send(w) ==
    /\ pc[w] = "send"
    /\ sent' = [sent EXCEPT ![SendTarget(w)] =
                   [n |-> @.n + 1, last |-> response[w]]]
    /\ pc' = [pc EXCEPT ![w] = "recv"]
    /\ request' = [request EXCEPT ![w] = NoMessage]
    /\ response' = [response EXCEPT ![w] = NoResponse]
    /\ UNCHANGED << listener, backlog, nthreads, peerVars, connection, data,
                    nframed, hops >>

\* a write error that reaches the accept loop and ends it
SendErrorStopsServer(w) ==
    /\ pc[w] = "send"
    /\ pc' = [pc EXCEPT ![w] = "raised_send"]
    /\ listener' = "closed"
    /\ UNCHANGED << backlog, nthreads, peerVars, connection, data,
                    request, response, nframed, sent, hops >>

\* line 193 raises socket.error: nothing catches it, the thread ends
SendError(w) ==
    /\ pc[w] = "send"
    /\ pc' = [pc EXCEPT ![w] = "raised_send"]
    /\ UNCHANGED << listener, backlog, nthreads, peerVars, connection, data,
                    request, response, nframed, sent, hops >>

\* ---------------------------------------------------------- specification
WorkerStep(w) ==
    \/ Recv(w)
    \/ RecvEOF(w)
    \/ RecvError(w)
    \/ More(w)
    \/ MoreEOF(w)
    \/ MoreError(w)
    \/ Decode(w)
    \/ Build(w)
    \/ Send(w)
    \/ SendError(w)

PeerStep(c, reqs, whole) ==
    \/ Connect(c)
    \/ \E m \in reqs : PeerSend(c, m)
    \/ \E n \in Cuts(wire[c], whole) : Deliver(c, n)
    \/ PeerClose(c)

\* several peers, sending requests of the core set, each arriving whole
Next ==
    \/ Accept
    \/ Interrupt
    \/ \E c \in Conns : PeerStep(c, CoreRequests, TRUE)
    \/ \E w \in Workers : WorkerStep(w)

Spec == Init /\ [][Next]_vars

\* one peer, sending any requests, cut anywhere the transport may cut
NextOne ==
    \/ Accept
    \/ Interrupt
    \/ PeerStep(1, AllRequests, FALSE)
    \/ WorkerStep(1)

SpecOne == Init /\ [][NextOne]_vars

\* the steps a running thread takes by itself: a read that returns, and the
\* statements after it.  The errors of the transport are not among them.
WorkerProgress(w) ==
    \/ Recv(w)
    \/ RecvEOF(w)
    \/ More(w)
    \/ MoreEOF(w)
    \/ Decode(w)
    \/ Build(w)
    \/ Send(w)

\* the one-connection server whose thread keeps being scheduled
FairSpecOne == SpecOne /\ WF_vars(WorkerProgress(1))

\* ================================================================ claims
\* the request message a block starts with, when it starts with a header
HasHeader(b) == b # <<>> /\ b[1].lo = 0 /\ b[1].hi >= HeaderSize

\* the decoded attributes of a message on the wire, in order
Attrs(m) == [i \in 1 .. Len(m.avps) |-> decodeAVP(m.avps[i])]

HasAttr(m, name, value) ==
    \E i \in 1 .. Len(m.avps) : decodeAVP(m.avps[i]) = <<name, value>>

HasAttrNamed(m, name) ==
    \E i \in 1 .. Len(m.avps) : decodeAVP(m.avps[i])[1] = name

\* C1: for every request handled by send_response, by either builder, the
\* response header's hop-by-hop identifier equals the request's hop-by-hop
\* identifier and its end-to-end identifier equals the request's.
C1_IdentifiersEchoed ==
    \A w \in Workers :
        pc[w] = "send" =>
            /\ response[w].hbh = request[w].HobByHop
            /\ response[w].ete = request[w].EndToEnd

\* C2: for every valid request stream, however the transport splits or
\* groups its bytes, the block handle_request passes to send_response is
\* exactly the bytes of one message: its size is the length its header
\* declares.
C2_BlockIsOneMessage ==
    \A w \in Workers : pc[w] = "decode" => OneMessage(data[w])

\* C3: no request is left unanswered: a worker that has been handed a
\* complete request message, of any command code and with any attributes,
\* on an open connection does not end without sending its response.
C3_CompleteRequestAnswered ==
    \A w \in Workers :
        OneMessage(data[w]) => pc[w] \notin {"raised_decode", "raised_key"}

\* a block that is one whole capability-exchange request carrying all six
\* attributes the answer echoes
CompleteCER(b) ==
    /\ OneMessage(b)
    /\ b[1].m.cmd = CER_CODE
    /\ \A n \in CEARequired : HasAttrNamed(b[1].m, n)

\* C4: for every request with command code 257 in which the six attributes
\* are all present, the response built by
\* generate_capability_exchange_answer contains Result-Code = 2001 and, for
\* each of the six, an attribute whose value equals the request's value.
C4_CEAEchoesRequest ==
    \A w \in Workers :
        /\ (pc[w] = "send" /\ request[w].command_code = CER_CODE) =>
              /\ HasAttr(response[w], "Result-Code", DIAMETER_SUCCESS)
              /\ \A n \in CEARequired :
                    HasAttr(response[w], n, request[w].avps[n])
        /\ (pc[w] \in {"send", "raised_key"} /\ CompleteCER(data[w])) =>
              /\ pc[w] = "send"
              /\ \A n \in CEARequired :
                    \E i \in 1 .. Len(data[w][1].m.avps) :
                        /\ Attrs(data[w][1].m)[i][1] = n
                        /\ HasAttr(response[w], n, Attrs(data[w][1].m)[i][2])

\* a capability-exchange request with a repeated attribute has got its answer
C4_Witness ==
    \E w \in Workers :
        /\ pc[w] = "send"
        /\ CompleteCER(data[w])
        /\ data[w][1].m.avps = DupAVPs
        /\ HasAttr(response[w], "Supported-Vendor-Id", 7)

\* C5: for every request whose command code is not 257, whatever its body,
\* the response contains exactly one attribute, Result-Code = 5012, and the
\* response header's command code equals the request's command code.
C5_UnknownCommandAnswer ==
    \A w \in Workers :
        (pc[w] = "send" /\ request[w].command_code # CER_CODE) =>
            /\ Len(response[w].avps) = 1
            /\ decodeAVP(response[w].avps[1])
                 = <<"Result-Code", DIAMETER_UNABLE_TO_COMPLY>>
            /\ response[w].cmd = request[w].command_code
            /\ HasHeader(data[w]) => response[w].cmd = data[w][1].m.cmd

\* a request of an unknown command that carries attributes has got its answer
C5_Witness ==
    \E w \in Workers :
        /\ pc[w] = "send"
        /\ OneMessage(data[w])
        /\ data[w][1].m.cmd = 9999
        /\ data[w][1].m.avps = SixAVPs
        /\ response[w].cmd = 9999

\* C6: on one connection request handling is strictly sequential: the worker
\* does not start reading the next request until the response to the current
\* one has been sent, so at most one request is in flight and the k-th
\* response sent is the response to the k-th block read.
C6_StrictlySequential ==
    \A w \in Workers :
        connection[w] # 0 =>
            LET answered == sent[connection[w]].n
            IN /\ pc[w] \in {"recv", "more"} => nframed[w] = answered
               /\ pc[w] \in {"decode", "build", "send"} =>
                     nframed[w] = answered + 1

\* a worker is reading again after two complete exchanges
C6_Witness ==
    \E w \in Workers :
        /\ pc[w] = "recv"
        /\ nframed[w] = 2
        /\ sent[connection[w]].n = 2

\* C7: in every reachable state the number of responses written to a
\* connection never exceeds the number of requests its worker has framed
\* from it, and every write to a connection is made by that connection's
\* own worker, one response per write.
C7_Counts ==
    \A c \in Conns :
        IF \E w \in Workers : connection[w] = c
        THEN \A w \in Workers : connection[w] = c => sent[c].n <= nframed[w]
        ELSE sent[c].n = 0

C7_OwnWrites ==
    \A c \in Conns :
        sent'[c] # sent[c] =>
            /\ sent'[c].n = sent[c].n + 1
            /\ \E w \in Workers :
                  /\ connection[w] = c
                  /\ pc[w] = "send"
                  /\ pc'[w] = "recv"
                  /\ sent'[c].last = response[w]

C7_ResponseOnOwnConnection == [] C7_Counts /\ [][C7_OwnWrites]_vars

\* two workers have each answered on their own connection
C7_Witness ==
    /\ \A c \in {1, 2} : sent[c].n >= 1
    /\ \A w \in {1, 2} : connection[w] # 0 /\ nframed[w] >= 1

\* what a step of worker w must leave alone: the listener and every other
\* worker, with that worker's connection
OthersUntouched(w) ==
    /\ listener' = listener
    /\ backlog' = backlog
    /\ nthreads' = nthreads
    /\ \A v \in Workers \ {w} :
          /\ pc'[v] = pc[v]
          /\ data'[v] = data[v]
          /\ request'[v] = request[v]
          /\ response'[v] = response[v]
          /\ connection'[v] = connection[v]
          /\ connection[v] # 0 =>
                /\ cstate'[connection[v]] = cstate[connection[v]]
                /\ sock'[connection[v]] = sock[connection[v]]
                /\ sent'[connection[v]] = sent[connection[v]]

\* C8: when a read at the start of a cycle returns zero bytes, that
\* connection's worker closes the connection without sending anything on
\* it, and every other worker and the listener are unaffected.
C8_Step ==
    \A w \in Workers :
        ( /\ pc[w] = "recv"
          /\ sock[connection[w]] = <<>>
          /\ peerEOF[connection[w]]
          /\ pc'[w] \notin {"recv", "killed"} ) =>
            /\ pc'[w] = "closed"
            /\ cstate'[connection[w]] = "closed"
            /\ sent' = sent
            /\ OthersUntouched(w)

C8_ZeroByteReadCloses == [][C8_Step]_vars

\* a worker has answered one request, then read end of stream and closed,
\* while another worker is still at work
C8_Witness ==
    \E w, v \in Workers :
        /\ w # v
        /\ pc[w] = "closed"
        /\ data[w] = <<>>
        /\ nframed[w] = 1
        /\ cstate[connection[w]] = "closed"
        /\ Live(v)
        /\ listener = "accepting"

\* C9: a transport read error or write error on one connection terminates
\* only that connection's worker: the listener and every other worker are
\* left as they were, so they go on accepting and handling.
TransportError(w) ==
    \/ pc[w] = "recv" /\ pc'[w] = "closed"
    \/ pc[w] = "more" /\ pc'[w] = "decode"
    \/ pc[w] = "send" /\ pc'[w] = "raised_send"

C9_Step == \A w \in Workers : TransportError(w) => OthersUntouched(w)

C9_ErrorsStayLocal == [][C9_Step]_vars

\* one worker has died of a write error, another has answered since and is
\* at work, and the listener accepts
C9_Witness ==
    \E w, v \in Workers :
        /\ w # v
        /\ pc[w] = "raised_send"
        /\ pc[v] = "send"
        /\ listener = "accepting"

\* C10: the response sent for a request on one connection is determined by
\* that request alone: two workers that hold the same request hold the same
\* response bytes, header identifiers included.
C10_ResponseDeterminedByRequest ==
    \A w, v \in Workers :
        (pc[w] = "send" /\ pc[v] = "send" /\ request[w] = request[v]) =>
            response[w] = response[v]

\* C11: the attribute entries of a decoded message are an ordered sequence
\* of (code, value) pairs that is never collapsed: for every request body in
\* which a code appears more than once, the DiameterMessage built from it
\* holds every occurrence.
C11_EveryOccurrenceHeld ==
    \A w \in Workers :
        (pc[w] \in {"build", "send"} /\ OneMessage(data[w])) =>
            \A i \in 1 .. Len(data[w][1].m.avps) :
                LET fv == Attrs(data[w][1].m)[i]
                IN /\ fv[1] \in DOMAIN request[w].avps
                   /\ request[w].avps[fv[1]] = fv[2]

\* C12: for a request with command code 257 from which at least one of the
\* six echoed attributes is absent, the handler fails with a missing-attribute
\* error: no bytes are sent to the peer for that request, and the
\* connection's worker stops and handles no further request.
MissingAttribute(w) ==
    /\ pc[w] = "build"
    /\ request[w].command_code = CER_CODE
    /\ ~ (CEARequired \subseteq DOMAIN request[w].avps)

C12_Step ==
    \A w \in Workers :
        /\ (MissingAttribute(w) /\ pc'[w] \notin {"build", "killed"}) =>
              /\ pc'[w] = "raised_key"
              /\ sent' = sent
        /\ pc[w] = "raised_key" =>
              /\ pc'[w] = "raised_key"
              /\ nframed'[w] = nframed[w]
              /\ sent'[connection[w]] = sent[connection[w]]
              /\ sock'[connection[w]] = Cat(sock[connection[w]],
                                            Drop(sock'[connection[w]],
                                                 Size(sock[connection[w]])))

C12_Unanswered ==
    \A w \in Workers :
        pc[w] = "raised_key" => sent[connection[w]].n = nframed[w] - 1

C12_MissingAttributeStopsWorker == [] C12_Unanswered /\ [][C12_Step]_vars

\* a capability-exchange request without Acct-Application-Id has stopped
\* the worker; the peer's next request lies unread in the socket
C12_Witness ==
    \E w \in Workers :
        /\ pc[w] = "raised_key"
        /\ OneMessage(data[w])
        /\ data[w][1].m.avps = FiveAVPs
        /\ sent[connection[w]].n = 0
        /\ sock[connection[w]] # <<>>

\* C13: the accept loop never blocks on message handling: each accepted
\* connection gets exactly one new worker, and whatever the workers are doing
\* (blocked in a read, handling a request, blocked in a send) the listener
\* can accept the next incoming connection and start its worker.
Accepted == { c \in Conns : cstate[c] \notin {"free", "pending"} }

Started == { w \in Workers : pc[w] # "idle" }

C13_OneWorkerEach ==
    /\ \A c \in Accepted :
          Cardinality({ w \in Started : connection[w] = c }) = 1
    /\ \A w \in Started : connection[w] \in Accepted

C13_CanAccept ==
    (listener = "accepting" /\ backlog # <<>>) => ENABLED Accept

C13_Step ==
    (backlog' # backlog /\ Len(backlog') < Len(backlog)) =>
        \E w \in Workers :
            /\ pc[w] = "idle" /\ pc'[w] = "recv"
            /\ connection'[w] = Head(backlog)
            /\ cstate'[Head(backlog)] = "open"
            /\ \A v \in Workers \ {w} :
                  pc'[v] = pc[v] /\ connection'[v] = connection[v]

C13_AcceptNeverBlocks ==
    [] (C13_OneWorkerEach /\ C13_CanAccept) /\ [][C13_Step]_vars

\* every connection has its worker: one is about to write a response, the
\* other waits in its first read
C13_Witness ==
    /\ Workers \subseteq Started
    /\ \E w \in Workers : pc[w] = "send" /\ sent[connection[w]].n = 0
    /\ \E w \in Workers : pc[w] = "recv" /\ nframed[w] = 0
                          /\ sock[connection[w]] = <<>>
                          /\ nsent[connection[w]] = 0

\* C14: whenever a read on a connection returns no data (the peer has closed
\* the stream), at any point of the worker's read logic, the continuation
\* reads after a full buffer included, the worker eventually reaches Closed
\* (as long as the server process runs).
ReadsNoData(w) ==
    /\ pc[w] \in {"recv", "more"}
    /\ sock[connection[w]] = <<>>
    /\ peerEOF[connection[w]]

C14_NoDataReadCloses ==
    ReadsNoData(1) ~> (pc[1] = "closed" \/ listener = "closed")

\* C15: when a read stops delivering data after only part of a message has
\* arrived (fewer bytes accumulated than the header's declared length), the
\* worker sends no response for the partial message.
Partial(b) == HasHeader(b) /\ Size(b) < b[1].m.len

C15_Step ==
    \A w \in Workers :
        (pc[w] = "send" /\ Partial(data[w])) =>
            sent'[connection[w]] = sent[connection[w]]

C15_PartialUnanswered == [][C15_Step]_vars

\* C16: dispatch is a total function of the command code alone: for every
\* decoded request exactly one builder runs, generate_capability_exchange_answer
\* when the code is 257 and invalid_request for every other code, whatever
\* else the request holds and whatever was handled before (the table is the
\* same at every dispatch).
Dispatched(w) == pc[w] = "build" /\ pc'[w] \notin {"build", "killed"}

C16_Step ==
    \A w \in Workers :
        Dispatched(w) =>
            IF request[w].command_code = CER_CODE
            THEN \/ /\ pc'[w] = "raised_key"
                    /\ CEAKeyError(request[w])
                 \/ /\ pc'[w] = "send"
                    /\ response'[w] =
                          generate_capability_exchange_answer(request[w], hops')
            ELSE /\ pc'[w] = "send"
                 /\ response'[w] = invalid_request(request[w], hops')

C16_DispatchByCommandCode == [][C16_Step]_vars

ResultCodeOf(r) ==
    { r.avps[i].data : i \in { j \in 1 .. Len(r.avps) :
                                 r.avps[j].code = dictAVPname2code("Result-Code") } }

\* the second request of a connection, of an unknown command, has been
\* dispatched to invalid_request after the first was answered by the
\* capability-exchange builder
C16_Witness ==
    \E w \in Workers :
        /\ pc[w] = "send"
        /\ nframed[w] = 2
        /\ request[w].command_code # CER_CODE
        /\ ResultCodeOf(response[w]) = {DIAMETER_UNABLE_TO_COMPLY}
        /\ sent[connection[w]].n = 1
        /\ ResultCodeOf(sent[connection[w]].last) = {DIAMETER_SUCCESS}

\* C17: after a cycle that completes normally (request framed, decoded,
\* dispatched, response sent) the worker is back at the read that awaits the
\* next frame and its connection is still open, after any number of
\* exchanges: a successful exchange never closes the connection.
ResponseSent(w) ==
    /\ pc[w] = "send"
    /\ sent'[connection[w]].n = sent[connection[w]].n + 1

C17_Step ==
    \A w \in Workers :
        ResponseSent(w) =>
            /\ pc'[w] = "recv"
            /\ cstate[connection[w]] = "open"
            /\ cstate'[connection[w]] = "open"
            /\ connection'[w] = connection[w]

C17_CycleReturnsToRead == [][C17_Step]_vars

\* two exchanges done on a connection that is open and whose peer has not
\* closed: the worker awaits a third request
C17_Witness ==
    \E w \in Workers :
        /\ pc[w] = "recv"
        /\ sent[connection[w]].n = 2
        /\ cstate[connection[w]] = "open"
        /\ ~ peerEOF[connection[w]]
        /\ sock[connection[w]] = <<>>

\* C18: when the bytes received for a message are fewer than the 20-byte
\* header, or the header's declared length is smaller than 20, decoding the
\* header fails: the worker goes no further with the block and sends no
\* response for it.
MalformedHeader(b) ==
    \/ Size(b) < HeaderSize
    \/ HasHeader(b) /\ b[1].m.len < HeaderSize

C18_Step ==
    \A w \in Workers :
        (pc[w] \in {"decode", "build", "send"} /\ MalformedHeader(data[w])) =>
            /\ pc'[w] \in {pc[w], "raised_decode", "killed"}
            /\ sent'[connection[w]] = sent[connection[w]]

C18_MalformedHeaderUnanswered == [][C18_Step]_vars

\* C19: after an interrupt reaches the accept loop the listener accepts no
\* further connection and the listening socket is closed for good; the
\* interrupt is taken whatever the workers are doing, and taking it closes no
\* connection and waits for no worker.
C19_State ==
    /\ listener = "accepting" => ENABLED Interrupt
    /\ listener = "closed" => ~ ENABLED Accept

C19_Step ==
    /\ listener = "closed" =>
          /\ listener' = "closed"
          /\ nthreads' = nthreads
          /\ backlog' = backlog
    /\ (listener = "accepting" /\ listener' = "closed") =>
          /\ cstate' = cstate
          /\ sent' = sent
          /\ nthreads' = nthreads
          /\ backlog' = backlog
          /\ \A w \in Workers : ~ Live(w) => pc'[w] = pc[w]

C19_InterruptClosesListenerOnly == [] C19_State /\ [][C19_Step]_vars

\* the listener is closed while a connection still waits to be accepted and
\* a worker was in the middle of a request, its connection left open
C19_Witness ==
    /\ listener = "closed"
    /\ backlog # <<>>
    /\ \E w \in Workers :
          /\ pc[w] = "killed"
          /\ cstate[connection[w]] = "open"
          /\ nframed[w] > sent[connection[w]].n

\* C20: the worker closes its connection only when it leaves its loop at the
\* first read of a cycle, by an error or by a read that yields no data; when
\* send_response raises (decode failure, missing attribute, error on send)
\* the worker ends without closing, so an ended worker does not imply a
\* closed connection.
Raised(w) == pc[w] \in {"raised_decode", "raised_key", "raised_send"}

C20_State ==
    \A w \in Workers :
        /\ Raised(w) => cstate[connection[w]] = "open"
        /\ pc[w] = "closed" => cstate[connection[w]] = "closed"

C20_Step ==
    \A c \in Conns :
        (cstate[c] # "closed" /\ cstate'[c] = "closed") =>
            \E w \in Workers :
                /\ connection[w] = c
                /\ pc[w] = "recv"
                /\ pc'[w] = "closed"

C20_ClosedOnlyFromFirstRead == [] C20_State /\ [][C20_Step]_vars

\* the worker has ended by a decode failure and the peer has closed its
\* side, yet the server's end of the connection is open
C20_Witness ==
    \E w \in Workers :
        /\ pc[w] = "raised_decode"
        /\ peerEOF[connection[w]]
        /\ cstate[connection[w]] = "open"

====
